---- MODULE Spec2Model ----
(***************************************************************************)
(* Model of the Google Search Console MCP server (ahonn/mcp-server-gsc):   *)
(* the query builder of src/src/index.ts, the schemas of                   *)
(* src/src/schemas.ts and the SearchConsoleService of                      *)
(* src/src/search-console.ts (enhancedSearchAnalytics, detectQuickWins,    *)
(* generateRecommendation, withPermissionFallback, getAuthClient).         *)
(*                                                                         *)
(* Numbers.  The code computes on IEEE doubles; the model computes on      *)
(* exact fixed-point integers:                                             *)
(*   impressions, clicks             plain counts                          *)
(*   row.ctr (a fraction)            units of 1/100000   (0.012 = 1200)    *)
(*   percentages (ctr*100, maxCtr,   units of 1/1000 %   (1.2 % = 1200)    *)
(*     targetCtr)                                                          *)
(*   positions                       units of 1/100      (6.2 = 620)       *)
(*   money (estimatedClickValue)     cents                                 *)
(*   conversionRate                  units of 1/100      (0.03 = 3)        *)
(* Displayed values: currentPosition in tenths, currentCtr in hundredths   *)
(* of a percent, estimatedValue in cents.  The inputs the model draws      *)
(* avoid exact rounding ties of toFixed, whose result on a double depends  *)
(* on the binary representation.                                           *)
(*                                                                         *)
(* JavaScript's undefined and NaN are the two negative integers below; no  *)
(* measure of the program is negative.                                     *)
(***************************************************************************)
EXTENDS Integers, Sequences, FiniteSets, TLC

VARIABLES
    rows,        \* detectQuickWins: the rows argument
    thresholds,  \* detectQuickWins: the thresholds argument (Partial<QuickWinsThresholds>)
    quickWins,   \* detectQuickWins: the returned QuickWin[]
    dpc,         \* detectQuickWins: "ready" before the call, "done" after it
    detections,  \* detectQuickWins: the calls made on the service so far
    recArgs,        \* generateRecommendation: position, ctr, impressions
    recommendation, \* generateRecommendation: the returned string
    args,        \* query builder: the arguments of the tool call
    parsed,      \* query builder: the result of SearchAnalyticsSchema.parse(args)
    requestBody, \* query builder: the result of buildSearchAnalyticsRequest(parsed)
    bpc,         \* query builder: "raw", then "parsed" or "invalid", then "built"
    calls,            \* server: the tool invocations, by invocation number
    cachedAuthClient, \* server: SearchConsoleService.cachedAuthClient
    getClientCalls    \* server: how many times this.auth.getClient() was called

detectVars == <<rows, thresholds, quickWins, dpc, detections, recArgs, recommendation>>
buildVars == <<args, parsed, requestBody, bpc>>
serverVars == <<calls, cachedAuthClient, getClientCalls>>
vars == <<detectVars, buildVars, serverVars>>

-----------------------------------------------------------------------------
(* JavaScript values *)

Undefined == 0 - 1
NaN == 0 - 2

\* a ?? b
Nullish(a, b) == IF a = Undefined THEN b ELSE a

\* ToNumber in arithmetic: undefined becomes NaN
ToNumber(a) == IF a = Undefined THEN NaN ELSE a

\* a >= b, a <= b, a < b on numbers: every comparison with NaN is false
Geq(a, b) == ToNumber(a) # NaN /\ ToNumber(b) # NaN /\ a >= b
Leq(a, b) == ToNumber(a) # NaN /\ ToNumber(b) # NaN /\ a <= b
Lt(a, b) == ToNumber(a) # NaN /\ ToNumber(b) # NaN /\ a < b

\* the value of a variable or field that is not in use
Unused == "unused"

\* An optional string, array or object: None is undefined, Some(x) is x
None == {}
Some(x) == {x}
ValueOf(o) == CHOOSE x \in o : TRUE

\* the truthiness of an optional string: undefined and "" are falsy
Truthy(o) == o # None /\ ValueOf(o) # ""

\* fixed-point literals
Pct(whole, thousandths) == whole * 1000 + thousandths
Pos(whole, hundredths) == whole * 100 + hundredths
Usd(dollars, cents) == dollars * 100 + cents

-----------------------------------------------------------------------------
(* detectQuickWins: the threshold defaults of the destructuring *)

DefaultMinImpressions == 50
DefaultMaxCtr == Pct(2, 0)
DefaultPositionRangeMin == Pos(4, 0)
DefaultPositionRangeMax == Pos(10, 0)
DefaultTargetCtr == Pct(5, 0)
DefaultEstimatedClickValue == Usd(1, 0)
DefaultConversionRate == 3

NoThresholds ==
    [minImpressions |-> Undefined, maxCtr |-> Undefined,
     positionRangeMin |-> Undefined, positionRangeMax |-> Undefined,
     targetCtr |-> Undefined, estimatedClickValue |-> Undefined,
     conversionRate |-> Undefined]

\* the destructuring with every omitted threshold read as 0
WithDefaultsZero(t) ==
    [minImpressions |-> Nullish(t.minImpressions, 0),
     maxCtr |-> Nullish(t.maxCtr, 0),
     positionRangeMin |-> Nullish(t.positionRangeMin, 0),
     positionRangeMax |-> Nullish(t.positionRangeMax, 0),
     targetCtr |-> Nullish(t.targetCtr, 0),
     estimatedClickValue |-> Nullish(t.estimatedClickValue, 0),
     conversionRate |-> Nullish(t.conversionRate, 0)]

\* const { minImpressions = 50, ... } = thresholds
WithDefaults(t) ==
    [minImpressions |-> Nullish(t.minImpressions, DefaultMinImpressions),
     maxCtr |-> Nullish(t.maxCtr, DefaultMaxCtr),
     positionRangeMin |-> Nullish(t.positionRangeMin, DefaultPositionRangeMin),
     positionRangeMax |-> Nullish(t.positionRangeMax, DefaultPositionRangeMax),
     targetCtr |-> Nullish(t.targetCtr, DefaultTargetCtr),
     estimatedClickValue |-> Nullish(t.estimatedClickValue, DefaultEstimatedClickValue),
     conversionRate |-> Nullish(t.conversionRate, DefaultConversionRate)]

\* row.ctr * 100: a fraction in 1/100000 becomes a percentage in 1/1000 %
CtrToPercent(ctr) ==
    IF ToNumber(ctr) = NaN THEN NaN ELSE (ctr * 100 * 1000) \div 100000

\* RowFilter with the upper position bound exclusive
RowFilterExclusiveMax(row, t) ==
    LET impressions == Nullish(row.impressions, 0)
        ctr == CtrToPercent(Nullish(row.ctr, 0))
        position == Nullish(row.position, 0)
    IN  /\ Geq(impressions, t.minImpressions)
        /\ Leq(ctr, t.maxCtr)
        /\ Geq(position, t.positionRangeMin)
        /\ Lt(position, t.positionRangeMax)

\* RowFilter accepting a position on the right side of either bound
RowFilterEitherBound(row, t) ==
    LET impressions == Nullish(row.impressions, 0)
        ctr == CtrToPercent(Nullish(row.ctr, 0))
        position == Nullish(row.position, 0)
    IN  /\ Geq(impressions, t.minImpressions)
        /\ Leq(ctr, t.maxCtr)
        /\ (Geq(position, t.positionRangeMin) \/ Leq(position, t.positionRangeMax))

\* the predicate of rows.filter(...)
RowFilter(row, t) ==
    LET impressions == Nullish(row.impressions, 0)
        ctr == CtrToPercent(Nullish(row.ctr, 0))
        position == Nullish(row.position, 0)
    IN  /\ Geq(impressions, t.minImpressions)
        /\ Leq(ctr, t.maxCtr)
        /\ Geq(position, t.positionRangeMin)
        /\ Leq(position, t.positionRangeMax)

\* PotentialClicks truncating instead of rounding
PotentialClicksTruncated(impressions, targetCtr) ==
    IF ToNumber(impressions) = NaN \/ ToNumber(targetCtr) = NaN THEN NaN
    ELSE (impressions * targetCtr) \div 100000

\* PotentialClicks with halves rounded down
PotentialClicksHalfDown(impressions, targetCtr) ==
    IF ToNumber(impressions) = NaN \/ ToNumber(targetCtr) = NaN THEN NaN
    ELSE (2 * impressions * targetCtr + 99999) \div 200000

\* Math.round((impressions * targetCtr) / 100): halves round up
PotentialClicks(impressions, targetCtr) ==
    IF ToNumber(impressions) = NaN \/ ToNumber(targetCtr) = NaN THEN NaN
    ELSE (2 * impressions * targetCtr + 100000) \div 200000

\* Math.max(0, potentialClicks - currentClicks)
AdditionalClicks(potentialClicks, currentClicks) ==
    IF potentialClicks = NaN \/ ToNumber(currentClicks) = NaN THEN NaN
    ELSE IF potentialClicks - currentClicks > 0
         THEN potentialClicks - currentClicks ELSE 0

\* Number((additionalClicks * estimatedClickValue * (1 + conversionRate)).toFixed(2)),
\* in cents
EstimatedValue(additionalClicks, estimatedClickValue, conversionRate) ==
    IF additionalClicks = NaN \/ ToNumber(estimatedClickValue) = NaN
       \/ ToNumber(conversionRate) = NaN THEN NaN
    ELSE (additionalClicks * estimatedClickValue * (100 + conversionRate) + 50) \div 100

HighCutoff == 100
MediumCutoff == 25

\* Opportunity with strict comparisons
OpportunityStrict(additionalClicks) ==
    IF Lt(HighCutoff, additionalClicks) THEN "High"
    ELSE IF Lt(MediumCutoff, additionalClicks) THEN "Medium"
    ELSE "Low"

\* the if / else if / else on additionalClicks
Opportunity(additionalClicks) ==
    IF Geq(additionalClicks, HighCutoff) THEN "High"
    ELSE IF Geq(additionalClicks, MediumCutoff) THEN "Medium"
    ELSE "Low"

\* recommendations.join('. ')
RECURSIVE Join(_)
Join(parts) ==
    IF Len(parts) = 0 THEN ""
    ELSE IF Len(parts) = 1 THEN parts[1]
    ELSE parts[1] \o ". " \o Join(Tail(parts))

\* generateRecommendation giving the top 3 advice at any position up to 6
generateRecommendationUpToSix(position, ctr, impressions) ==
    LET byPosition ==
            IF Leq(position, Pos(6, 0))
            THEN <<"Improve content depth and relevance to reach top 3">>
            ELSE IF Lt(Pos(6, 0), position) /\ Leq(position, Pos(10, 0))
            THEN <<"Focus on on-page SEO and internal linking">>
            ELSE <<>>
        byCtr ==
            IF Lt(ctr, Pct(1, 0))
            THEN <<"Optimize title tag and meta description for higher CTR">>
            ELSE <<>>
        byVolume ==
            IF Geq(impressions, 1000)
            THEN <<"High-volume keyword - prioritize optimization">>
            ELSE <<>>
        recommendations == byPosition \o byCtr \o byVolume
    IN  IF Len(recommendations) > 0
        THEN Join(recommendations)
        ELSE "Review content for optimization opportunities"

\* generateRecommendation(position, ctr, impressions); ctr is the percentage
generateRecommendation(position, ctr, impressions) ==
    LET byPosition ==
            IF Geq(position, Pos(4, 0)) /\ Leq(position, Pos(6, 0))
            THEN <<"Improve content depth and relevance to reach top 3">>
            ELSE IF Lt(Pos(6, 0), position) /\ Leq(position, Pos(10, 0))
            THEN <<"Focus on on-page SEO and internal linking">>
            ELSE <<>>
        byCtr ==
            IF Lt(ctr, Pct(1, 0))
            THEN <<"Optimize title tag and meta description for higher CTR">>
            ELSE <<>>
        byVolume ==
            IF Geq(impressions, 1000)
            THEN <<"High-volume keyword - prioritize optimization">>
            ELSE <<>>
        recommendations == byPosition \o byCtr \o byVolume
    IN  IF Len(recommendations) > 0
        THEN Join(recommendations)
        ELSE "Review content for optimization opportunities"

\* Number(x.toFixed(n)) dropping one decimal digit of the fixed-point value
RoundDigit(x) == IF ToNumber(x) = NaN THEN NaN ELSE (x + 5) \div 10

\* row.keys?.[i] ?? 'N/A'
KeyAt(row, i) == IF Len(row.keys) >= i THEN row.keys[i] ELSE "N/A"

\* the function of .map(...): one QuickWin from one row that passed the filter
ToQuickWin(row, t) ==
    LET impressions == row.impressions
        currentClicks == Nullish(row.clicks, 0)
        currentCtr == CtrToPercent(row.ctr)
        position == row.position
        potentialClicks == PotentialClicks(impressions, t.targetCtr)
        additionalClicks == AdditionalClicks(potentialClicks, currentClicks)
    IN  [query |-> KeyAt(row, 1),
         page |-> KeyAt(row, 2),
         currentPosition |-> RoundDigit(position),
         impressions |-> impressions,
         currentClicks |-> currentClicks,
         currentCtr |-> RoundDigit(currentCtr),
         potentialClicks |-> potentialClicks,
         additionalClicks |-> additionalClicks,
         estimatedValue |-> EstimatedValue(additionalClicks, t.estimatedClickValue,
                                           t.conversionRate),
         opportunity |-> Opportunity(additionalClicks),
         recommendation |-> generateRecommendation(position, currentCtr, impressions)]

\* (a, b) => b.additionalClicks - a.additionalClicks as a sort comparator: a
\* positive result puts b first; a NaN result counts as 0
ComesBefore(a, b) ==
    /\ a.additionalClicks # NaN
    /\ b.additionalClicks # NaN
    /\ a.additionalClicks > b.additionalClicks

\* Array.prototype.sort is stable (ECMAScript 2019).  SortQuickWins inserts each
\* element into the sorted rest of the array, which holds the elements that
\* followed it: it goes in front of the first element that does not come
\* before it, so in front of its equals.
\* InsertSorted putting an element behind its equals (an unstable sort)
RECURSIVE InsertSortedBehindEquals(_, _)
InsertSortedBehindEquals(x, s) ==
    IF Len(s) = 0 THEN <<x>>
    ELSE IF ComesBefore(x, s[1]) THEN <<x>> \o s
    ELSE <<s[1]>> \o InsertSortedBehindEquals(x, Tail(s))

RECURSIVE InsertSorted(_, _)
InsertSorted(x, s) ==
    IF Len(s) = 0 THEN <<x>>
    ELSE IF ~ComesBefore(s[1], x) THEN <<x>> \o s
    ELSE <<s[1]>> \o InsertSorted(x, Tail(s))

RECURSIVE SortQuickWins(_)
SortQuickWins(s) ==
    IF Len(s) = 0 THEN <<>>
    ELSE InsertSorted(s[1], SortQuickWins(Tail(s)))

RECURSIVE FilterRows(_, _)
FilterRows(rs, t) ==
    IF Len(rs) = 0 THEN <<>>
    ELSE IF RowFilter(rs[1], t) THEN <<rs[1]>> \o FilterRows(Tail(rs), t)
    ELSE FilterRows(Tail(rs), t)

MapRows(rs, t) == [i \in 1..Len(rs) |-> ToQuickWin(rs[i], t)]

\* detectQuickWins(rows, thresholds)
detectQuickWins(rs, th) ==
    LET t == WithDefaults(th)
    IN  SortQuickWins(MapRows(FilterRows(rs, t), t))

-----------------------------------------------------------------------------
(* The rows and threshold profiles the detector is run on *)

MaxRows == 4

Row(keys, impressions, clicks, ctr, position) ==
    [keys |-> keys, impressions |-> impressions, clicks |-> clicks,
     ctr |-> ctr, position |-> position]

RowUniverse ==
    { Row(<<"q1", "p1">>, 1250, 15, 1200, Pos(6, 20)),
      Row(<<"q2", "p2">>, 2200, 10, 455, Pos(4, 0)),
      Row(<<"q3">>, 2000, Undefined, 0, Pos(10, 0)),
      Row(<<"q4", "p1">>, 500, 0, 0, Pos(5, 0)),
      Row(<<"q5", "p2">>, 200, 0, 0, Pos(6, 1)),
      Row(<<"q6", "p1">>, 40, 1, 1000, Pos(5, 0)),
      Row(<<"q7", "p2">>, 100, 0, Undefined, Pos(5, 0)),
      Row(<<"q8", "p1">>, 1000, 60, 6000, Pos(5, 0)),
      Row(<<>>, Undefined, Undefined, Undefined, Undefined),
      Row(<<"q9", "p2">>, 0, 0, 0, Pos(5, 0)) }

\* the rows of one response: distinct rows, in any order
RowSeqs ==
    { s \in UNION { [1..n -> RowUniverse] : n \in 0..MaxRows } :
        \A i, j \in DOMAIN s : s[i] = s[j] => i = j }

FullDefaults == WithDefaults(NoThresholds)

ThresholdProfiles ==
    { NoThresholds,
      [minImpressions |-> 1, maxCtr |-> Pct(100, 0),
       positionRangeMin |-> Pos(1, 0), positionRangeMax |-> Pos(100, 0),
       targetCtr |-> Pct(5, 0), estimatedClickValue |-> Usd(1, 33),
       conversionRate |-> 3],
      [FullDefaults EXCEPT !.positionRangeMin = Pos(10, 0),
                           !.positionRangeMax = Pos(4, 0)],
      [NoThresholds EXCEPT !.targetCtr = Pct(3, 300), !.maxCtr = Pct(1, 200)],
      [FullDefaults EXCEPT !.targetCtr = 0, !.minImpressions = 40],
      [NoThresholds EXCEPT !.minImpressions = 1, !.maxCtr = Pct(100, 0),
                           !.positionRangeMin = Pos(6, 20),
                           !.positionRangeMax = Pos(6, 19)] }

-----------------------------------------------------------------------------
(* Specification of the detector alone *)

InitDetect ==
    /\ rows \in RowSeqs
    /\ thresholds \in ThresholdProfiles
    /\ quickWins = <<>>
    /\ dpc = "ready"
    /\ detections = Unused
    /\ recArgs = Unused
    /\ recommendation = Unused
    /\ args = Unused
    /\ parsed = Unused
    /\ requestBody = Unused
    /\ bpc = Unused
    /\ calls = Unused
    /\ cachedAuthClient = Unused
    /\ getClientCalls = Unused

DetectQuickWins ==
    /\ dpc = "ready"
    /\ quickWins' = detectQuickWins(rows, thresholds)
    /\ dpc' = "done"
    /\ UNCHANGED <<rows, thresholds, detections, recArgs, recommendation,
                   buildVars, serverVars>>

NextDetect == DetectQuickWins

SpecDetect == InitDetect /\ [][NextDetect]_vars

-----------------------------------------------------------------------------
(* Specification of repeated detections on one service: each call is given a
   rows array and a threshold profile; rows is the array as the call leaves
   it, detections the calls made so far *)

MaxDetections == 3

\* the arrays the callers hold
RepeatedRows ==
    { <<>>,
      <<Row(<<"q5", "p2">>, 200, 0, 0, Pos(6, 1))>>,
      <<Row(<<"q2", "p2">>, 2200, 10, 455, Pos(4, 0)),
        Row(<<"q1", "p1">>, 1250, 15, 1200, Pos(6, 20)),
        Row(<<"q8", "p1">>, 1000, 60, 6000, Pos(5, 0))>>,
      <<Row(<<"q1", "p1">>, 1250, 15, 1200, Pos(6, 20)),
        Row(<<"q2", "p2">>, 2200, 10, 455, Pos(4, 0))>> }

RepeatedProfiles ==
    { NoThresholds,
      [NoThresholds EXCEPT !.maxCtr = Pct(100, 0), !.targetCtr = Pct(3, 300)] }

InitRepeat ==
    /\ rows = <<>>
    /\ thresholds = NoThresholds
    /\ quickWins = <<>>
    /\ dpc = "ready"
    /\ detections = <<>>
    /\ recArgs = Unused
    /\ recommendation = Unused
    /\ args = Unused
    /\ parsed = Unused
    /\ requestBody = Unused
    /\ bpc = Unused
    /\ calls = Unused
    /\ cachedAuthClient = Unused
    /\ getClientCalls = Unused

\* one call of detectQuickWins whose result is kept in a field of the service
\* and grows with every call
DetectAccumulating(rs, th) ==
    /\ Len(detections) < MaxDetections
    /\ rows' = rs
    /\ thresholds' = th
    /\ quickWins' = SortQuickWins(quickWins \o detectQuickWins(rs, th))
    /\ dpc' = "done"
    /\ detections' = Append(detections,
                            [given |-> rs, rows |-> rows', thresholds |-> th,
                             quickWins |-> quickWins'])
    /\ UNCHANGED <<recArgs, recommendation, buildVars, serverVars>>

\* one call of detectQuickWins(rs, th): filter and map build new arrays, sort
\* sorts the array map returned; the array given is left as it is
Detect(rs, th) ==
    /\ Len(detections) < MaxDetections
    /\ rows' = rs
    /\ thresholds' = th
    /\ quickWins' = detectQuickWins(rs, th)
    /\ dpc' = "done"
    /\ detections' = Append(detections,
                            [given |-> rs, rows |-> rows', thresholds |-> th,
                             quickWins |-> quickWins'])
    /\ UNCHANGED <<recArgs, recommendation, buildVars, serverVars>>

NextRepeat == \E rs \in RepeatedRows, th \in RepeatedProfiles : Detect(rs, th)

SpecRepeat == InitRepeat /\ [][NextRepeat]_vars

-----------------------------------------------------------------------------
(* Specification of generateRecommendation alone *)

RecPositions ==
    {0, Pos(3, 99), Pos(4, 0), Pos(5, 0), Pos(6, 0), Pos(6, 1), Pos(10, 0),
     Pos(10, 1), Pos(50, 0)}

RecCtrs == {0, Pct(0, 999), Pct(1, 0), Pct(1, 200), Pct(6, 0), NaN}

RecImpressions == {1, 50, 999, 1000, 2200}

InitRecommend ==
    /\ recArgs \in [position : RecPositions, ctr : RecCtrs, impressions : RecImpressions]
    /\ recommendation = ""
    /\ rows = Unused
    /\ thresholds = Unused
    /\ quickWins = Unused
    /\ dpc = "ready"
    /\ detections = Unused
    /\ args = Unused
    /\ parsed = Unused
    /\ requestBody = Unused
    /\ bpc = Unused
    /\ calls = Unused
    /\ cachedAuthClient = Unused
    /\ getClientCalls = Unused

GenerateRecommendation ==
    /\ dpc = "ready"
    /\ recommendation' =
          generateRecommendation(recArgs.position, recArgs.ctr, recArgs.impressions)
    /\ dpc' = "done"
    /\ UNCHANGED <<rows, thresholds, quickWins, detections, recArgs,
                   buildVars, serverVars>>

NextRecommend == GenerateRecommendation

SpecRecommend == InitRecommend /\ [][NextRecommend]_vars

-----------------------------------------------------------------------------
(* Claims about the detector, checked under SpecDetect *)

\* the QuickWin q carries the dimension values of row r (the rows of a response
\* have distinct keys)
FromRow(q, r) == q.query = KeyAt(r, 1) /\ q.page = KeyAt(r, 2)

\* the inclusion predicate as the claim words it, on the thresholds in effect
\* (a ctr in 1/100000 is, as a number, ctr*100 in 1/1000 %)
ClaimedInclusion(r, t) ==
    LET impressions == IF r.impressions = Undefined THEN 0 ELSE r.impressions
        ctr == IF r.ctr = Undefined THEN 0 ELSE r.ctr
        position == IF r.position = Undefined THEN 0 ELSE r.position
    IN  /\ impressions >= t.minImpressions
        /\ ctr <= t.maxCtr
        /\ t.positionRangeMin <= position
        /\ position <= t.positionRangeMax

\* C1: a row yields exactly one opportunity if impressions >= minImpressions,
\* ctr*100 <= maxCtr and positionRangeMin <= position <= positionRangeMax, and
\* none otherwise; every opportunity comes from a row; under the default
\* thresholds a row with impressions 0 or 40 yields none.
C1_InclusionIff ==
    dpc = "done" =>
        /\ \A i \in 1..Len(rows) :
              Cardinality({ j \in 1..Len(quickWins) : FromRow(quickWins[j], rows[i]) })
                = IF ClaimedInclusion(rows[i], WithDefaults(thresholds)) THEN 1 ELSE 0
        /\ \A j \in 1..Len(quickWins) :
              \E i \in 1..Len(rows) : FromRow(quickWins[j], rows[i])
        /\ thresholds = NoThresholds =>
              \A i \in 1..Len(rows) :
                 rows[i].impressions \in {0, 40} =>
                    \A j \in 1..Len(quickWins) : ~FromRow(quickWins[j], rows[i])

\* C1 witness: under the default thresholds the rows at both ends of the
\* position range are included and the rows with 40 and 0 impressions are not
C1_Witness ==
    /\ dpc = "done"
    /\ thresholds = NoThresholds
    /\ Len(rows) = 4
    /\ { rows[i].impressions : i \in 1..4 } = {2200, 2000, 40, 0}
    /\ { quickWins[j].query : j \in 1..Len(quickWins) } = {"q2", "q3"}

\* the index in rows of the row an opportunity comes from
RowIndex(q) == CHOOSE i \in 1..Len(rows) : FromRow(q, rows[i])

\* C2: the opportunities are in descending order of additionalClicks, and
\* opportunities with equal additionalClicks are in the order of their rows.
C2_SortedStable ==
    dpc = "done" =>
        \A i, j \in 1..Len(quickWins) :
            i < j =>
               /\ quickWins[i].additionalClicks >= quickWins[j].additionalClicks
               /\ quickWins[i].additionalClicks = quickWins[j].additionalClicks
                     => RowIndex(quickWins[i]) < RowIndex(quickWins[j])

\* C2 witness: additionalClicks 10, 100, 100, 25 in row order come out as
\* 100, 100, 25, 10 with the two 100s (q3 before q2) in row order
C2_Witness ==
    /\ dpc = "done"
    /\ thresholds = NoThresholds
    /\ [i \in 1..Len(rows) |-> KeyAt(rows[i], 1)] = <<"q5", "q3", "q2", "q4">>
    /\ [j \in 1..Len(quickWins) |-> quickWins[j].additionalClicks] = <<100, 100, 25, 10>>
    /\ [j \in 1..Len(quickWins) |-> quickWins[j].query] = <<"q3", "q2", "q4", "q5">>

ZeroFilled(r) ==
    [r EXCEPT !.impressions = IF @ = Undefined THEN 0 ELSE @,
              !.ctr = IF @ = Undefined THEN 0 ELSE @,
              !.position = IF @ = Undefined THEN 0 ELSE @]

\* C9: detection on rows with missing impressions, ctr or position gives what
\* it gives on the same rows with 0 in the missing fields.
C9_MissingAsZero ==
    dpc = "done" =>
        quickWins = detectQuickWins([i \in 1..Len(rows) |-> ZeroFilled(rows[i])],
                                    thresholds)

-----------------------------------------------------------------------------
(* schemas.ts: enums and validation helpers *)

VALID_DIMENSIONS ==
    {"query", "page", "country", "device", "searchAppearance", "date", "hour"}
VALID_SEARCH_TYPES == {"web", "image", "video", "news", "discover", "googleNews"}
VALID_AGGREGATION_TYPES == {"auto", "byNewsShowcasePanel", "byProperty", "byPage"}
VALID_FILTER_OPERATORS ==
    {"equals", "contains", "notEquals", "notContains", "includingRegex",
     "excludingRegex"}
VALID_DEVICE_TYPES == {"DESKTOP", "MOBILE", "TABLET"}
VALID_DATA_STATES == {"all", "final"}

Digits == {"0", "1", "2", "3", "4", "5", "6", "7", "8", "9"}

\* DATE_REGEX = /^\d{4}-\d{2}-\d{2}$/ on a date given as its characters
DATE_REGEX(d) ==
    /\ Len(d) = 10
    /\ \A i \in {1, 2, 3, 4, 6, 7, 9, 10} : d[i] \in Digits
    /\ d[5] = "-"
    /\ d[8] = "-"

\* d.trim() on the pieces of a dimensions string
Trim(d) ==
    CASE d = " page" -> "page"
      [] d = "query " -> "query"
      [] d = " " -> ""
      [] OTHER -> d

\* val.split(',').map(d => d.trim()); a dimensions string is given as its
\* pieces between the commas
SplitTrim(pieces) == [i \in 1..Len(pieces) |-> Trim(pieces[i])]

validateDimensions(pieces) ==
    \A i \in 1..Len(pieces) : SplitTrim(pieces)[i] \in VALID_DIMENSIONS

MinRowLimit == 1
MaxRowLimit == 25000
DefaultRowLimit == 1000
DefaultStartRow == 0

SchemaMinImpressions == 50
SchemaMaxCtr == Pct(2, 0)
SchemaPositionRangeMin == Pos(4, 0)
SchemaPositionRangeMax == Pos(10, 0)
SchemaTargetCtr == Pct(5, 0)
SchemaEstimatedClickValue == Usd(1, 0)
SchemaConversionRate == 3

\* one issue of a ZodError: the field path and the message, which is the text
\* the schema gives or else the code of the zod issue
Issue(path, message, bad) ==
    IF bad THEN <<[path |-> path, message |-> message]>> ELSE <<>>

TooSmall == "too_small"
TooBig == "too_big"
InvalidType == "invalid_type"
InvalidValue == "invalid_value"

\* the issues of a number with a minimum and a maximum (NoMax for none)
NoMax == 0 - 1
RangeIssues(path, x, min, max) ==
    Issue(path, TooSmall, x # Undefined /\ x < min)
    \o Issue(path, TooBig, x # Undefined /\ max # NoMax /\ x > max)

\* the issues of a required string matched against DATE_REGEX
DateIssues(path, d) ==
    Issue(path, InvalidType, d = None)
    \o Issue(path, "Must be in YYYY-MM-DD format", d # None /\ ~DATE_REGEX(ValueOf(d)))

\* the issues of an optional enum
EnumIssues(path, o, valid) ==
    Issue(path, InvalidValue, o # None /\ ValueOf(o) \notin valid)

\* the issues of QuickWinsThresholdsSchema on t, paths prefixed by prefix
ThresholdIssues(t, prefix) ==
    RangeIssues(prefix \o "minImpressions", t.minImpressions, 1, NoMax)
    \o RangeIssues(prefix \o "maxCtr", t.maxCtr, 0, Pct(100, 0))
    \o RangeIssues(prefix \o "positionRangeMin", t.positionRangeMin, Pos(1, 0), Pos(100, 0))
    \o RangeIssues(prefix \o "positionRangeMax", t.positionRangeMax, Pos(1, 0), Pos(100, 0))
    \o RangeIssues(prefix \o "targetCtr", t.targetCtr, 0, Pct(100, 0))
    \o RangeIssues(prefix \o "estimatedClickValue", t.estimatedClickValue, 0, NoMax)
    \o RangeIssues(prefix \o "conversionRate", t.conversionRate, 0, 100)

\* the value QuickWinsThresholdsSchema gives on a valid t: defaults filled in
ThresholdValue(t) ==
    [minImpressions |-> Nullish(t.minImpressions, SchemaMinImpressions),
     maxCtr |-> Nullish(t.maxCtr, SchemaMaxCtr),
     positionRangeMin |-> Nullish(t.positionRangeMin, SchemaPositionRangeMin),
     positionRangeMax |-> Nullish(t.positionRangeMax, SchemaPositionRangeMax),
     targetCtr |-> Nullish(t.targetCtr, SchemaTargetCtr),
     estimatedClickValue |-> Nullish(t.estimatedClickValue, SchemaEstimatedClickValue),
     conversionRate |-> Nullish(t.conversionRate, SchemaConversionRate)]

\* the issues of GSCBaseSchema extended with startDate and endDate
DateRangeIssues(a) ==
    Issue("siteUrl", InvalidType, a.siteUrl = None)
    \o Issue("siteUrl", TooSmall, a.siteUrl # None /\ Len(ValueOf(a.siteUrl)) < 1)
    \o DateIssues("startDate", a.startDate)
    \o DateIssues("endDate", a.endDate)

\* the issues of SearchAnalyticsSchema on the arguments a
SearchAnalyticsIssues(a) ==
    DateRangeIssues(a)
    \o Issue("dimensions",
              "Invalid dimensions. Valid values: query, page, country, device, searchAppearance, date, hour",
              a.dimensions # None /\ ~validateDimensions(ValueOf(a.dimensions)))
    \o EnumIssues("type", a.type, VALID_SEARCH_TYPES)
    \o EnumIssues("aggregationType", a.aggregationType, VALID_AGGREGATION_TYPES)
    \o RangeIssues("rowLimit", a.rowLimit, MinRowLimit, MaxRowLimit)
    \o RangeIssues("startRow", a.startRow, 0, NoMax)
    \o EnumIssues("dataState", a.dataState, VALID_DATA_STATES)
    \o Issue("countryFilter", TooSmall,
              a.countryFilter # None /\ Len(ValueOf(a.countryFilter)) < 3)
    \o Issue("countryFilter", TooBig,
              a.countryFilter # None /\ Len(ValueOf(a.countryFilter)) > 3)
    \o EnumIssues("deviceFilter", a.deviceFilter, VALID_DEVICE_TYPES)
    \o EnumIssues("filterOperator", a.filterOperator, VALID_FILTER_OPERATORS)

\* the value SearchAnalyticsSchema gives on valid arguments: defaults filled in
SearchAnalyticsValue(a) ==
    [siteUrl |-> ValueOf(a.siteUrl),
     startDate |-> ValueOf(a.startDate),
     endDate |-> ValueOf(a.endDate),
     dimensions |-> a.dimensions,
     type |-> a.type,
     aggregationType |-> a.aggregationType,
     rowLimit |-> Nullish(a.rowLimit, DefaultRowLimit),
     startRow |-> Nullish(a.startRow, DefaultStartRow),
     dataState |-> IF a.dataState = None THEN "final" ELSE ValueOf(a.dataState),
     pageFilter |-> a.pageFilter,
     queryFilter |-> a.queryFilter,
     countryFilter |-> a.countryFilter,
     deviceFilter |-> a.deviceFilter,
     filterOperator |->
        IF a.filterOperator = None THEN "equals" ELSE ValueOf(a.filterOperator)]

\* schema.parse: the parsed value, or the issues of the ZodError it throws
Parsed(value) == [ok |-> TRUE, value |-> value, issues |-> <<>>]
ZodError(issues) == [ok |-> FALSE, value |-> Unused, issues |-> issues]

\* SearchAnalyticsSchema.parse(a)
SearchAnalyticsSchemaParse(a) ==
    IF Len(SearchAnalyticsIssues(a)) = 0
    THEN Parsed(SearchAnalyticsValue(a))
    ELSE ZodError(SearchAnalyticsIssues(a))

\* EnhancedSearchAnalyticsSchema.parse(a): SearchAnalyticsSchema extended with
\* regexFilter, enableQuickWins and quickWinsThresholds
EnhancedSearchAnalyticsSchemaParse(a) ==
    LET issues ==
            SearchAnalyticsIssues(a)
            \o (IF a.quickWinsThresholds = None THEN <<>>
                ELSE ThresholdIssues(ValueOf(a.quickWinsThresholds),
                                     "quickWinsThresholds."))
    IN  IF Len(issues) = 0
        THEN Parsed(SearchAnalyticsValue(a) @@
                    [regexFilter |-> a.regexFilter,
                     enableQuickWins |-> (a.enableQuickWins = Some(TRUE)),
                     quickWinsThresholds |->
                        IF a.quickWinsThresholds = None THEN None
                        ELSE Some(ThresholdValue(ValueOf(a.quickWinsThresholds)))])
        ELSE ZodError(issues)

\* QuickWinsDetectionSchema.parse(a): GSCBaseSchema with the two dates, merged
\* with QuickWinsThresholdsSchema
QuickWinsDetectionSchemaParse(a) ==
    LET issues == DateRangeIssues(a) \o ThresholdIssues(a, "")
    IN  IF Len(issues) = 0
        THEN Parsed([siteUrl |-> ValueOf(a.siteUrl),
                     startDate |-> ValueOf(a.startDate),
                     endDate |-> ValueOf(a.endDate)] @@ ThresholdValue(a))
        ELSE ZodError(issues)

-----------------------------------------------------------------------------
(* index.ts: the query builder *)

Clause(dimension, operator, expression) ==
    [dimension |-> dimension, operator |-> operator, expression |-> expression]

\* buildFilterGroups giving every clause the shared operator
buildFilterGroupsSharedOperator(a) ==
    LET filters ==
            (IF Truthy(a.pageFilter)
             THEN <<Clause("page", a.filterOperator, ValueOf(a.pageFilter))>>
             ELSE <<>>)
            \o (IF Truthy(a.queryFilter)
                THEN <<Clause("query", a.filterOperator, ValueOf(a.queryFilter))>>
                ELSE <<>>)
            \o (IF Truthy(a.countryFilter)
                THEN <<Clause("country", a.filterOperator, ValueOf(a.countryFilter))>>
                ELSE <<>>)
            \o (IF Truthy(a.deviceFilter)
                THEN <<Clause("device", a.filterOperator, ValueOf(a.deviceFilter))>>
                ELSE <<>>)
    IN  IF Len(filters) > 0
        THEN Some(<<[groupType |-> "and", filters |-> filters]>>)
        ELSE None

\* buildFilterGroups pushing the query clause before the page clause
buildFilterGroupsQueryFirst(a) ==
    LET filters ==
            (IF Truthy(a.queryFilter)
             THEN <<Clause("query", a.filterOperator, ValueOf(a.queryFilter))>>
             ELSE <<>>)
            \o (IF Truthy(a.pageFilter)
                THEN <<Clause("page", a.filterOperator, ValueOf(a.pageFilter))>>
                ELSE <<>>)
            \o (IF Truthy(a.countryFilter)
                THEN <<Clause("country", "equals", ValueOf(a.countryFilter))>>
                ELSE <<>>)
            \o (IF Truthy(a.deviceFilter)
                THEN <<Clause("device", "equals", ValueOf(a.deviceFilter))>>
                ELSE <<>>)
    IN  IF Len(filters) > 0
        THEN Some(<<[groupType |-> "and", filters |-> filters]>>)
        ELSE None

\* buildFilterGroups(args)
buildFilterGroups(a) ==
    LET filters ==
            (IF Truthy(a.pageFilter)
             THEN <<Clause("page", a.filterOperator, ValueOf(a.pageFilter))>>
             ELSE <<>>)
            \o (IF Truthy(a.queryFilter)
                THEN <<Clause("query", a.filterOperator, ValueOf(a.queryFilter))>>
                ELSE <<>>)
            \o (IF Truthy(a.countryFilter)
                THEN <<Clause("country", "equals", ValueOf(a.countryFilter))>>
                ELSE <<>>)
            \o (IF Truthy(a.deviceFilter)
                THEN <<Clause("device", "equals", ValueOf(a.deviceFilter))>>
                ELSE <<>>)
    IN  IF Len(filters) > 0
        THEN Some(<<[groupType |-> "and", filters |-> filters]>>)
        ELSE None

\* buildSearchAnalyticsRequest(args)
buildSearchAnalyticsRequest(a) ==
    [startDate |-> a.startDate,
     endDate |-> a.endDate,
     dimensions |->
        IF a.dimensions = None THEN None ELSE Some(SplitTrim(ValueOf(a.dimensions))),
     searchType |-> a.type,
     aggregationType |-> a.aggregationType,
     rowLimit |-> a.rowLimit,
     startRow |-> a.startRow,
     dataState |-> a.dataState,
     dimensionFilterGroups |-> buildFilterGroups(a)]

-----------------------------------------------------------------------------
(* Specification of the query builder alone: the arguments of a
   search_analytics call are parsed and the request body is built *)

Chars(y1, y2, y3, y4, s1, m1, m2, s2, d1, d2) ==
    <<y1, y2, y3, y4, s1, m1, m2, s2, d1, d2>>

Jan1 == Chars("2", "0", "2", "4", "-", "0", "1", "-", "0", "1")
Jan31 == Chars("2", "0", "2", "4", "-", "0", "1", "-", "3", "1")
SlashDate == Chars("2", "0", "2", "4", "/", "0", "1", "/", "3", "1")
ShortDate == <<"2", "0", "2", "4", "-", "1", "-", "1">>

BaseArgs ==
    [siteUrl |-> Some("https://example.com/"),
     startDate |-> Some(Jan1),
     endDate |-> Some(Jan31),
     dimensions |-> None,
     type |-> None,
     aggregationType |-> None,
     rowLimit |-> Undefined,
     startRow |-> Undefined,
     dataState |-> None,
     pageFilter |-> None,
     queryFilter |-> None,
     countryFilter |-> None,
     deviceFilter |-> None,
     filterOperator |-> None]

BuilderArgs ==
    { [BaseArgs EXCEPT !.pageFilter = pf, !.queryFilter = qf, !.countryFilter = cf,
                       !.deviceFilter = df, !.filterOperator = op,
                       !.dimensions = dims, !.endDate = Some(ed)] :
        pf \in {None, Some(""), Some("/blog")},
        qf \in {None, Some(""), Some("seo")},
        cf \in {None, Some("USA"), Some("US")},
        df \in {None, Some("MOBILE")},
        op \in {None, Some("contains"), Some("includingRegex"), Some("startsWith")},
        dims \in {None, Some(<<"query", " page">>), Some(<<"page", "rank">>)},
        ed \in {Jan31, SlashDate} }

InitBuild ==
    /\ args \in BuilderArgs
    /\ parsed = Unused
    /\ requestBody = Unused
    /\ bpc = "raw"
    /\ rows = Unused
    /\ thresholds = Unused
    /\ quickWins = Unused
    /\ dpc = Unused
    /\ detections = Unused
    /\ recArgs = Unused
    /\ recommendation = Unused
    /\ calls = Unused
    /\ cachedAuthClient = Unused
    /\ getClientCalls = Unused

\* const parsed = SearchAnalyticsSchema.parse(args), which throws a ZodError
\* on invalid arguments
ParseArgs ==
    /\ bpc = "raw"
    /\ parsed' = SearchAnalyticsSchemaParse(args)
    /\ bpc' = IF parsed'.ok THEN "parsed" ELSE "invalid"
    /\ UNCHANGED <<args, requestBody, detectVars, serverVars>>

\* const requestBody = buildSearchAnalyticsRequest(parsed)
BuildRequest ==
    /\ bpc = "parsed"
    /\ requestBody' = buildSearchAnalyticsRequest(parsed.value)
    /\ bpc' = "built"
    /\ UNCHANGED <<args, parsed, detectVars, serverVars>>

NextBuild == ParseArgs \/ BuildRequest

SpecBuild == InitBuild /\ [][NextBuild]_vars

-----------------------------------------------------------------------------
(* Claims about the query builder, checked under SpecBuild *)

\* the simple filters in the fixed order, and those of them the arguments give
FilterNames == <<"pageFilter", "queryFilter", "countryFilter", "deviceFilter">>
DimensionOf(f) ==
    CASE f = "pageFilter" -> "page"
      [] f = "queryFilter" -> "query"
      [] f = "countryFilter" -> "country"
      [] f = "deviceFilter" -> "device"

Range(q) == { q[i] : i \in 1..Len(q) }

RECURSIVE SelectSeq2(_, _)
SelectSeq2(s, keep) ==
    IF Len(s) = 0 THEN <<>>
    ELSE IF s[1] \in keep THEN <<s[1]>> \o SelectSeq2(Tail(s), keep)
    ELSE SelectSeq2(Tail(s), keep)

Supplied == SelectSeq2(FilterNames, { f \in Range(FilterNames) : args[f] # None })
SuppliedNonEmpty ==
    SelectSeq2(FilterNames, { f \in Range(FilterNames) : Truthy(args[f]) })

\* the built request has no filter group if no filter of fs, and otherwise one
\* "and" group with one clause per filter of fs, in the order of fs
OneGroupOf(fs) ==
    IF Len(fs) = 0
    THEN requestBody.dimensionFilterGroups = None
    ELSE /\ requestBody.dimensionFilterGroups # None
         /\ LET groups == ValueOf(requestBody.dimensionFilterGroups)
            IN  /\ Len(groups) = 1
                /\ groups[1].groupType = "and"
                /\ Len(groups[1].filters) = Len(fs)
                /\ \A i \in 1..Len(fs) :
                      /\ groups[1].filters[i].dimension = DimensionOf(fs[i])
                      /\ groups[1].filters[i].expression = ValueOf(args[fs[i]])

\* C5 as claimed: no filter group when no simple filter is given, otherwise one
\* "and" group with one clause per given filter in the order page, query,
\* country, device.
C5_OneClausePerSuppliedFilter == bpc = "built" => OneGroupOf(Supplied)

\* C5 amended: the same with "given" read as given and not the empty string.
C5_OneClausePerNonEmptyFilter == bpc = "built" => OneGroupOf(SuppliedNonEmpty)

\* C5 witness: query, country and device given without page, next to an empty
\* page filter
C5_Witness ==
    /\ bpc = "built"
    /\ args.pageFilter = Some("")
    /\ SuppliedNonEmpty = <<"queryFilter", "countryFilter", "deviceFilter">>
    /\ Len(ValueOf(requestBody.dimensionFilterGroups)[1].filters) = 3

\* C6: the country and device clauses carry "equals" whatever filterOperator
\* is; the page and query clauses carry the given filterOperator, "equals"
\* when none is given.
C6_Operators ==
    bpc = "built" =>
        (requestBody.dimensionFilterGroups # None =>
            \A g \in 1..Len(ValueOf(requestBody.dimensionFilterGroups)) :
                LET filters == ValueOf(requestBody.dimensionFilterGroups)[g].filters
                IN  \A i \in 1..Len(filters) :
                        filters[i].operator =
                            IF filters[i].dimension \in {"country", "device"}
                            THEN "equals"
                            ELSE IF args.filterOperator = None THEN "equals"
                            ELSE ValueOf(args.filterOperator))

\* C6 witness: a request with all four clauses built with filterOperator
\* includingRegex
C6_Witness ==
    /\ bpc = "built"
    /\ args.filterOperator = Some("includingRegex")
    /\ requestBody.dimensionFilterGroups # None
    /\ Len(ValueOf(requestBody.dimensionFilterGroups)[1].filters) = 4

-----------------------------------------------------------------------------
(* search-console.ts: SearchConsoleService, and the CallTool handler of
   index.ts that calls it *)

\* this.normalizeUrl(url) on the site identifiers of the model
normalizeUrl(url) ==
    CASE url = "sc-domain:example.com" -> url
      [] url = "https://example.com/" -> "sc-domain:example.com"
      [] OTHER -> "sc-domain:" \o url

\* what the upstream call throws: an Error with a message
PermissionError == "User does not have sufficient PERMISSION for site"
ForbiddenError == "Request failed with status code 403"
QuotaError == "Quota exceeded"
UpstreamErrors == {PermissionError, ForbiddenError, QuotaError}
FallbackErrors == {PermissionError, QuotaError}

\* err.message compared as it is, without toLowerCase()
ToLowerCaseSkipped(message) == message

\* err.message.toLowerCase()
ToLowerCase(message) ==
    IF message = PermissionError
    THEN "user does not have sufficient permission for site"
    ELSE IF message = QuotaError THEN "quota exceeded"
    ELSE message

\* errorMessage.includes('permission') || errorMessage.includes('403')
MentionsPermission(errorMessage) ==
    errorMessage \in {"user does not have sufficient permission for site",
                      "Request failed with status code 403"}

\* the request body of the detect_quick_wins tool
QuickWinsRequest(parsedArgs) ==
    [startDate |-> parsedArgs.startDate,
     endDate |-> parsedArgs.endDate,
     dimensions |-> Some(<<"query", "page">>),
     searchType |-> None,
     aggregationType |-> None,
     rowLimit |-> MaxRowLimit,
     startRow |-> Undefined,
     dataState |-> "final",
     dimensionFilterGroups |-> None]

\* the options the handler passes to enhancedSearchAnalytics
EnhancedOptions(parsedArgs) ==
    [regexFilter |-> parsedArgs.regexFilter,
     enableQuickWins |-> parsedArgs.enableQuickWins,
     quickWinsThresholds |-> parsedArgs.quickWinsThresholds]

QuickWinsOptions(parsedArgs) ==
    [regexFilter |-> None,
     enableQuickWins |-> TRUE,
     quickWinsThresholds |->
        Some([minImpressions |-> parsedArgs.minImpressions,
              maxCtr |-> parsedArgs.maxCtr,
              positionRangeMin |-> parsedArgs.positionRangeMin,
              positionRangeMax |-> parsedArgs.positionRangeMax,
              targetCtr |-> parsedArgs.targetCtr,
              estimatedClickValue |-> parsedArgs.estimatedClickValue,
              conversionRate |-> parsedArgs.conversionRate])]

\* the options of a plain searchAnalytics call: none
NoOptions == [regexFilter |-> None, enableQuickWins |-> FALSE, quickWinsThresholds |-> None]

\* dimensions?.includes('query')
IncludesQuery(body) ==
    body.dimensions # None
    /\ \E i \in 1..Len(ValueOf(body.dimensions)) : ValueOf(body.dimensions)[i] = "query"

RegexGroup(pattern) ==
    [groupType |-> "and",
     filters |-> <<Clause("query", "includingRegex", pattern)>>]

\* enhancedRequestBody with the regex group put in place of the groups built
EnhancedRequestBodyReplacing(body, options) ==
    IF Truthy(options.regexFilter) /\ IncludesQuery(body)
    THEN [body EXCEPT !.dimensionFilterGroups =
            Some(<<RegexGroup(ValueOf(options.regexFilter))>>)]
    ELSE body

\* enhancedSearchAnalytics: the clone of the request body with the regex
\* filter group appended
EnhancedRequestBody(body, options) ==
    IF Truthy(options.regexFilter) /\ IncludesQuery(body)
    THEN [body EXCEPT !.dimensionFilterGroups =
            Some((IF @ = None THEN <<>> ELSE ValueOf(@))
                 \o <<RegexGroup(ValueOf(options.regexFilter))>>)]
    ELSE body

\* result.data.rows || []
RowsOf(data) == IF data.rows = None THEN <<>> ELSE ValueOf(data.rows)

\* detectQuickWins(rows, options.quickWinsThresholds)
DetectWith(rs, options) ==
    detectQuickWins(rs, IF options.quickWinsThresholds = None THEN NoThresholds
                        ELSE ValueOf(options.quickWinsThresholds))

\* EnhancedResponse running the detection on an empty row set as well
EnhancedResponseUnguarded(body, options, data) ==
    [rows |-> RowsOf(data),
     responseAggregationType |-> data.responseAggregationType,
     metadata |->
        [regexFilterApplied |-> Truthy(options.regexFilter),
         quickWinsEnabled |-> options.enableQuickWins,
         rowLimit |-> IF body.rowLimit \in {Undefined, 0} THEN 1000 ELSE body.rowLimit,
         totalRows |-> Len(RowsOf(data))],
     quickWins |->
        IF options.enableQuickWins
        THEN Some(DetectWith(RowsOf(data), options))
        ELSE None]

\* enhancedSearchAnalytics after the query: the enhanced response for the
\* request body sent and the data received
EnhancedResponse(body, options, data) ==
    [rows |-> RowsOf(data),
     responseAggregationType |-> data.responseAggregationType,
     metadata |->
        [regexFilterApplied |-> Truthy(options.regexFilter),
         quickWinsEnabled |-> options.enableQuickWins,
         rowLimit |-> IF body.rowLimit \in {Undefined, 0} THEN 1000 ELSE body.rowLimit,
         totalRows |-> Len(RowsOf(data))],
     quickWins |->
        IF options.enableQuickWins /\ Len(RowsOf(data)) > 0
        THEN Some(DetectWith(RowsOf(data), options))
        ELSE None]

\* reduce((sum, qw) => sum + qw[field], 0)
RECURSIVE Sum(_, _)
Sum(qws, field) ==
    IF Len(qws) = 0 THEN 0 ELSE qws[1][field] + Sum(Tail(qws), field)

\* the report counting the rows fetched instead of the opportunities found
QuickWinsReportCountingRows(parsedArgs, response) ==
    [quickWins |-> IF response.quickWins = None THEN <<>> ELSE ValueOf(response.quickWins),
     summary |->
        [totalOpportunities |-> Len(response.rows),
         totalAdditionalClicks |->
            IF response.quickWins = None THEN 0
            ELSE Sum(ValueOf(response.quickWins), "additionalClicks"),
         totalEstimatedValue |->
            IF response.quickWins = None THEN 0
            ELSE Sum(ValueOf(response.quickWins), "estimatedValue"),
         thresholds |->
            [minImpressions |-> parsedArgs.minImpressions,
             maxCtr |-> parsedArgs.maxCtr,
             positionRange |-> <<parsedArgs.positionRangeMin, parsedArgs.positionRangeMax>>,
             targetCtr |-> parsedArgs.targetCtr]],
     analysisComplete |-> TRUE]

\* the report of the detect_quick_wins tool; positionRange, the string
\* `${positionRangeMin}-${positionRangeMax}`, is kept as the pair it is made of
QuickWinsReport(parsedArgs, response) ==
    [quickWins |-> IF response.quickWins = None THEN <<>> ELSE ValueOf(response.quickWins),
     summary |->
        [totalOpportunities |->
            IF response.quickWins = None THEN 0 ELSE Len(ValueOf(response.quickWins)),
         totalAdditionalClicks |->
            IF response.quickWins = None THEN 0
            ELSE Sum(ValueOf(response.quickWins), "additionalClicks"),
         totalEstimatedValue |->
            IF response.quickWins = None THEN 0
            ELSE Sum(ValueOf(response.quickWins), "estimatedValue"),
         thresholds |->
            [minImpressions |-> parsedArgs.minImpressions,
             maxCtr |-> parsedArgs.maxCtr,
             positionRange |-> <<parsedArgs.positionRangeMin, parsedArgs.positionRangeMax>>,
             targetCtr |-> parsedArgs.targetCtr]],
     analysisComplete |-> TRUE]

\* the schema of each tool
ParseFor(tool, a) ==
    CASE tool = "search_analytics" -> SearchAnalyticsSchemaParse(a)
      [] tool = "enhanced_search_analytics" -> EnhancedSearchAnalyticsSchemaParse(a)
      [] tool = "detect_quick_wins" -> QuickWinsDetectionSchemaParse(a)

\* the request body the handler builds for each tool
RequestFor(tool, parsedArgs) ==
    IF tool = "detect_quick_wins" THEN QuickWinsRequest(parsedArgs)
    ELSE buildSearchAnalyticsRequest(parsedArgs)

OptionsFor(tool, parsedArgs) ==
    CASE tool = "search_analytics" -> NoOptions
      [] tool = "enhanced_search_analytics" -> EnhancedOptions(parsedArgs)
      [] tool = "detect_quick_wins" -> QuickWinsOptions(parsedArgs)

\* what the handler returns for the data of the upstream query
ToolResult(call, data) ==
    CASE call.tool = "search_analytics" -> data
      [] call.tool = "enhanced_search_analytics" ->
            EnhancedResponse(call.enhancedRequestBody, call.options, data)
      [] call.tool = "detect_quick_wins" ->
            QuickWinsReport(call.parsed,
                            EnhancedResponse(call.enhancedRequestBody, call.options, data))

\* the issues joined without the field path of each
RECURSIVE JoinIssuesMessagesOnly(_)
JoinIssuesMessagesOnly(issues) ==
    IF Len(issues) = 0 THEN ""
    ELSE issues[1].message
         \o (IF Len(issues) = 1 THEN "" ELSE "; " \o JoinIssuesMessagesOnly(Tail(issues)))

\* issues.map(issue => `${path}: ${issue.message}`).join('; ')
RECURSIVE JoinIssues(_)
JoinIssues(issues) ==
    IF Len(issues) = 0 THEN ""
    ELSE issues[1].path \o ": " \o issues[1].message
         \o (IF Len(issues) = 1 THEN "" ELSE "; " \o JoinIssues(Tail(issues)))

\* throw new Error(`Invalid arguments: ${issues.join('; ')}`)
InvalidArguments(issues) == "Invalid arguments: " \o JoinIssues(issues)

\* throw new Error(`[GSC] ${context} failed: ${err.message}`)
Wrapped(context, message) == "[GSC] " \o context \o " failed: " \o message

-----------------------------------------------------------------------------
(* Specification of the server: tool invocations interleaved at their awaits *)

MaxCalls == 2

CallIds == 1..MaxCalls

NoClient == 0

EnhancedArgs ==
    BaseArgs @@ [regexFilter |-> None, enableQuickWins |-> None,
                 quickWinsThresholds |-> None]

QuickWinsArgs ==
    [siteUrl |-> Some("https://example.com/"),
     startDate |-> Some(Jan1),
     endDate |-> Some(Jan31)] @@ NoThresholds

ToolCall(tool, a) == [tool |-> tool, args |-> a]

\* the tool calls of the clients when invocations interleave
ToolCalls ==
    { ToolCall("enhanced_search_analytics",
               [EnhancedArgs EXCEPT !.dimensions = Some(<<"query", " page">>),
                                    !.pageFilter = Some("/blog"),
                                    !.filterOperator = Some("contains"),
                                    !.regexFilter = Some("^how"),
                                    !.enableQuickWins = Some(TRUE)]),
      ToolCall("enhanced_search_analytics",
               [EnhancedArgs EXCEPT !.regexFilter = Some("^how"),
                                    !.endDate = Some(ShortDate),
                                    !.rowLimit = MaxRowLimit + 1]),
      ToolCall("detect_quick_wins", QuickWinsArgs) }

\* the tool calls of a client when one invocation runs alone
SingleToolCalls ==
    { ToolCall("enhanced_search_analytics",
               [EnhancedArgs EXCEPT !.dimensions = dims, !.regexFilter = re,
                                    !.pageFilter = pf, !.queryFilter = qf,
                                    !.filterOperator = op, !.enableQuickWins = qw,
                                    !.quickWinsThresholds = th, !.rowLimit = rl]) :
        dims \in {None, Some(<<"query">>), Some(<<"page">>), Some(<<"query", " page">>)},
        re \in {None, Some(""), Some("^how")},
        pf \in {None, Some("/blog")},
        qf \in {None, Some("seo")},
        op \in {None, Some("contains")},
        qw \in {None, Some(FALSE), Some(TRUE)},
        th \in {None, Some([NoThresholds EXCEPT !.minImpressions = 1]),
                Some([NoThresholds EXCEPT !.positionRangeMax = Pos(101, 0)])},
        rl \in {Undefined, MaxRowLimit, MaxRowLimit + 1} }
    \cup
    { ToolCall("search_analytics",
               [BaseArgs EXCEPT !.dimensions = dims, !.queryFilter = qf,
                                !.endDate = Some(ed), !.type = ty]) :
        dims \in {None, Some(<<"query">>)},
        qf \in {None, Some("seo")},
        ed \in {Jan31, SlashDate},
        ty \in {None, Some("images")} }
    \cup
    { ToolCall("detect_quick_wins",
               [QuickWinsArgs EXCEPT !.minImpressions = mi, !.maxCtr = mc,
                                     !.targetCtr = tg]) :
        mi \in {Undefined, 1, 0},
        mc \in {Undefined, Pct(100, 0), Pct(150, 0)},
        tg \in {Undefined, Pct(3, 300)} }

\* what the upstream query answers: data without rows, with no row, with rows
UpstreamData ==
    { [rows |-> None, responseAggregationType |-> Some("byPage")],
      [rows |-> Some(<<>>), responseAggregationType |-> Some("byPage")],
      [rows |-> Some(<<Row(<<"q5", "p2">>, 200, 0, 0, Pos(6, 1)),
                       Row(<<"q6", "p1">>, 40, 1, 1000, Pos(5, 0)),
                       Row(<<"q1", "p1">>, 1250, 15, 1200, Pos(6, 20))>>),
       responseAggregationType |-> Some("byPage")] }

IdleCall ==
    [pc |-> "idle", tool |-> "", args |-> Unused, parsed |-> Unused,
     requestBody |-> Unused, options |-> Unused, enhancedRequestBody |-> Unused,
     awaitedClient |-> NoClient, sent |-> <<>>, err |-> "", received |-> Unused,
     result |-> Unused, error |-> ""]

Init ==
    /\ calls = [c \in CallIds |-> IdleCall]
    /\ cachedAuthClient = NoClient
    /\ getClientCalls = 0
    /\ rows = Unused
    /\ thresholds = Unused
    /\ quickWins = Unused
    /\ dpc = Unused
    /\ detections = Unused
    /\ recArgs = Unused
    /\ recommendation = Unused
    /\ args = Unused
    /\ parsed = Unused
    /\ requestBody = Unused
    /\ bpc = Unused

\* webmasters.searchanalytics.query({ siteUrl, requestBody })
Query(siteUrl, body) == [siteUrl |-> siteUrl, requestBody |-> body]

\* The handler up to its first await: the arguments are parsed (a ZodError
\* becomes the Invalid arguments error), the request body is built and
\* enhancedSearchAnalytics / searchAnalytics run up to getAuthClient, which
\* calls this.auth.getClient() when no client is cached.
CallTool(c, tc) ==
    /\ calls[c].pc = "idle"
    /\ c > 1 => calls[c - 1].pc # "idle"
    /\ LET p == ParseFor(tc.tool, tc.args)
       IN  IF ~p.ok
           THEN /\ calls' = [calls EXCEPT ![c] =
                              [@ EXCEPT !.pc = "failed", !.tool = tc.tool,
                                        !.args = tc.args,
                                        !.error = InvalidArguments(p.issues)]]
                /\ UNCHANGED <<cachedAuthClient, getClientCalls>>
           ELSE LET body == RequestFor(tc.tool, p.value)
                    options == OptionsFor(tc.tool, p.value)
                IN  /\ calls' = [calls EXCEPT ![c] =
                          [@ EXCEPT !.pc = IF cachedAuthClient = NoClient
                                           THEN "getClient" ELSE "cached",
                                    !.tool = tc.tool,
                                    !.args = tc.args,
                                    !.parsed = p.value,
                                    !.requestBody = body,
                                    !.options = options,
                                    !.enhancedRequestBody =
                                        IF tc.tool = "search_analytics" THEN body
                                        ELSE EnhancedRequestBody(body, options),
                                    !.awaitedClient =
                                        IF cachedAuthClient = NoClient
                                        THEN getClientCalls + 1
                                        ELSE NoClient]]
                    /\ getClientCalls' = IF cachedAuthClient = NoClient
                                         THEN getClientCalls + 1 ELSE getClientCalls
                    /\ UNCHANGED cachedAuthClient
    /\ UNCHANGED <<detectVars, buildVars>>

\* the primary operation of withPermissionFallback is started
SendPrimary(call) ==
    [call EXCEPT !.pc = "primary",
                 !.awaitedClient = NoClient,
                 !.sent = <<Query(call.parsed.siteUrl, call.enhancedRequestBody)>>]

\* this.auth.getClient() resolves: the client is cached and the query is sent
GetClientResolves(c) ==
    /\ calls[c].pc = "getClient"
    /\ cachedAuthClient' = calls[c].awaitedClient
    /\ calls' = [calls EXCEPT ![c] = SendPrimary(@)]
    /\ UNCHANGED <<getClientCalls, detectVars, buildVars>>

\* this.auth.getClient() rejects: the error reaches the client as it is
GetClientRejects(c) ==
    /\ calls[c].pc = "getClient"
    /\ calls' = [calls EXCEPT ![c] =
                   [@ EXCEPT !.pc = "failed", !.awaitedClient = NoClient,
                             !.error = "Could not load credentials"]]
    /\ UNCHANGED <<cachedAuthClient, getClientCalls, detectVars, buildVars>>

\* getAuthClient returned the cached client: the query is sent
CachedClientReturned(c) ==
    /\ calls[c].pc = "cached"
    /\ calls' = [calls EXCEPT ![c] = SendPrimary(@)]
    /\ UNCHANGED <<cachedAuthClient, getClientCalls, detectVars, buildVars>>

\* the query answers with data that is kept in a field of the service, where
\* the data of an invocation that returned earlier is still found
QuerySucceedsSharedData(c, data) ==
    /\ calls[c].pc \in {"primary", "fallback"}
    /\ LET earlier == {d \in CallIds : d # c /\ calls[d].pc = "done"}
           shared == IF earlier = {} THEN data
                     ELSE calls[CHOOSE d \in earlier : TRUE].received
       IN  calls' = [calls EXCEPT ![c] =
                       [@ EXCEPT !.pc = "done", !.err = "", !.received = data,
                                 !.result = ToolResult(calls[c], shared)]]
    /\ UNCHANGED <<cachedAuthClient, getClientCalls, detectVars, buildVars>>

\* the query (primary or fallback) answers with data: the tool call returns
QuerySucceeds(c, data) ==
    /\ calls[c].pc \in {"primary", "fallback"}
    /\ calls' = [calls EXCEPT ![c] =
                   [@ EXCEPT !.pc = "done", !.err = "", !.received = data,
                             !.result = ToolResult(calls[c], data)]]
    /\ UNCHANGED <<cachedAuthClient, getClientCalls, detectVars, buildVars>>

\* the primary query throws err: on a permission error the fallback query is
\* sent with the normalized site, any other error is re-thrown with context
PrimaryFails(c, message) ==
    /\ calls[c].pc = "primary"
    /\ calls' = [calls EXCEPT ![c] =
          IF MentionsPermission(ToLowerCase(message))
          THEN [@ EXCEPT !.pc = "fallback",
                         !.err = message,
                         !.sent = Append(calls[c].sent, Query(normalizeUrl(calls[c].parsed.siteUrl),
                                                  calls[c].enhancedRequestBody))]
          ELSE [@ EXCEPT !.pc = "failed",
                         !.error = Wrapped("searchAnalytics", message)]]
    /\ UNCHANGED <<cachedAuthClient, getClientCalls, detectVars, buildVars>>

\* the fallback query throws and is attempted once more before giving up
FallbackFailsRetrying(c, message) ==
    /\ calls[c].pc = "fallback"
    /\ calls' = [calls EXCEPT ![c] =
          IF Len(calls[c].sent) = 2
          THEN [@ EXCEPT !.sent = Append(calls[c].sent, calls[c].sent[2])]
          ELSE [@ EXCEPT !.pc = "failed", !.err = "", !.error = message]]
    /\ UNCHANGED <<cachedAuthClient, getClientCalls, detectVars, buildVars>>

\* the fallback query throws and its error is re-thrown with context
FallbackFailsWrapped(c, message) ==
    /\ calls[c].pc = "fallback"
    /\ calls' = [calls EXCEPT ![c] =
                   [@ EXCEPT !.pc = "failed", !.err = "",
                             !.error = Wrapped("searchAnalytics", message)]]
    /\ UNCHANGED <<cachedAuthClient, getClientCalls, detectVars, buildVars>>

\* the fallback query throws: the error reaches the client as it is
FallbackFails(c, message) ==
    /\ calls[c].pc = "fallback"
    /\ calls' = [calls EXCEPT ![c] =
                   [@ EXCEPT !.pc = "failed", !.err = "", !.error = message]]
    /\ UNCHANGED <<cachedAuthClient, getClientCalls, detectVars, buildVars>>

\* the steps of invocation c, its tool call drawn from toolCalls
Step(c, toolCalls) ==
    \/ \E tc \in toolCalls : CallTool(c, tc)
    \/ GetClientResolves(c)
    \/ GetClientRejects(c)
    \/ CachedClientReturned(c)
    \/ \E data \in UpstreamData : QuerySucceeds(c, data)
    \/ \E message \in UpstreamErrors : PrimaryFails(c, message)
    \/ \E message \in FallbackErrors : FallbackFails(c, message)

Next == \E c \in CallIds : Step(c, ToolCalls)

Spec == Init /\ [][Next]_vars

\* Specification of one invocation running alone, with any of the single tool
\* calls, before or after an earlier invocation has cached the client
InitSingle ==
    /\ calls = [c \in CallIds |-> IdleCall]
    /\ getClientCalls \in {0, 1}
    /\ cachedAuthClient = getClientCalls
    /\ rows = Unused
    /\ thresholds = Unused
    /\ quickWins = Unused
    /\ dpc = Unused
    /\ detections = Unused
    /\ recArgs = Unused
    /\ recommendation = Unused
    /\ args = Unused
    /\ parsed = Unused
    /\ requestBody = Unused
    /\ bpc = Unused

NextSingle == Step(1, SingleToolCalls)

SpecSingle == InitSingle /\ [][NextSingle]_vars

-----------------------------------------------------------------------------
(* Claims about enhancedSearchAnalytics and the tools that call it *)

\* the clauses of all filter groups of a request body, in order
RECURSIVE Flatten(_)
Flatten(groups) ==
    IF Len(groups) = 0 THEN <<>>
    ELSE groups[1].filters \o Flatten(Tail(groups))

ClausesOf(body) ==
    IF body.dimensionFilterGroups = None THEN <<>>
    ELSE Flatten(ValueOf(body.dimensionFilterGroups))

\* an invocation of the enhanced tool whose arguments were accepted
EnhancedStarted(call) ==
    /\ call.tool = "enhanced_search_analytics"
    /\ call.pc # "idle"
    /\ ParseFor(call.tool, call.args).ok

PatternSupplied(call) == call.args.regexFilter # None

PatternNonEmpty(call) ==
    call.args.regexFilter # None /\ ValueOf(call.args.regexFilter) # ""

DimensionsIncludeQuery(call) ==
    /\ call.requestBody.dimensions # None
    /\ \E i \in DOMAIN ValueOf(call.requestBody.dimensions) :
          ValueOf(call.requestBody.dimensions)[i] = "query"

PatternClause(call) ==
    [dimension |-> "query", operator |-> "includingRegex",
     expression |-> ValueOf(call.args.regexFilter)]

\* the request body differs from the built one in its filter groups only, and
\* its clauses are the built ones followed by the pattern clause
BuiltPlusPattern(call, body) ==
    /\ ClausesOf(body) = ClausesOf(call.requestBody) \o <<PatternClause(call)>>
    /\ [body EXCEPT !.dimensionFilterGroups = call.requestBody.dimensionFilterGroups]
          = call.requestBody

\* the errors an invocation with accepted arguments can end with: those of
\* the credentials and of the upstream query
UpstreamFailures ==
    {"Could not load credentials"}
    \cup {"[GSC] searchAnalytics failed: " \o m : m \in UpstreamErrors}
    \cup UpstreamErrors

\* C7 as stated: whenever a pattern is supplied and the dimensions of the
\* request include "query", every request sent upstream holds the clauses the
\* query builder produced, unchanged and in order, plus exactly one clause
\* {query, includingRegex, pattern}; when the dimensions do not include
\* "query" the request sent is the built request, and no error is raised.
C7_PatternSuppliedAdded ==
    \A c \in CallIds :
        EnhancedStarted(calls[c]) =>
            /\ \A i \in DOMAIN calls[c].sent :
                  IF PatternSupplied(calls[c]) /\ DimensionsIncludeQuery(calls[c])
                  THEN BuiltPlusPattern(calls[c], calls[c].sent[i].requestBody)
                  ELSE DimensionsIncludeQuery(calls[c])
                       \/ calls[c].sent[i].requestBody = calls[c].requestBody
            /\ calls[c].pc = "failed" => calls[c].error \in UpstreamFailures

\* C7 (amended): whenever a non-empty pattern is supplied and the dimensions
\* of the request include "query", every request sent upstream (the primary
\* and the fallback query) holds the clauses the query builder produced,
\* unchanged and in order, plus exactly one clause {query, includingRegex,
\* pattern}, and is the built request in every other field; otherwise (empty
\* or no pattern, or dimensions without "query") the request sent is the
\* built request.  The pattern never makes the invocation fail: an invocation
\* whose arguments were accepted fails only with an error of the credentials
\* or of the upstream query.
C7_NonEmptyPatternAdded ==
    \A c \in CallIds :
        EnhancedStarted(calls[c]) =>
            /\ \A i \in DOMAIN calls[c].sent :
                  IF PatternNonEmpty(calls[c]) /\ DimensionsIncludeQuery(calls[c])
                  THEN BuiltPlusPattern(calls[c], calls[c].sent[i].requestBody)
                  ELSE calls[c].sent[i].requestBody = calls[c].requestBody
            /\ calls[c].pc = "failed" => calls[c].error \in UpstreamFailures

\* a pattern was added behind two built clauses, in the primary and in the
\* fallback query of an invocation that returned
C7_Witness ==
    \E c \in CallIds :
        /\ EnhancedStarted(calls[c])
        /\ calls[c].pc = "done"
        /\ PatternNonEmpty(calls[c])
        /\ DimensionsIncludeQuery(calls[c])
        /\ Len(ClausesOf(calls[c].requestBody)) = 2
        /\ Len(calls[c].sent) = 2
        /\ Len(ClausesOf(calls[c].sent[2].requestBody)) = 3

\* the includingRegex clause is among the clauses of the request sent
RegexClauseSent(call) ==
    \E i \in DOMAIN ClausesOf(call.sent[1].requestBody) :
        ClausesOf(call.sent[1].requestBody)[i].operator = "includingRegex"

\* C8: in the result of enhancedSearchAnalytics, metadata.regexFilterApplied
\* is true exactly when the includingRegex clause was added to the request
\* sent upstream; it is false when the pattern was ignored because the
\* dimensions do not include "query".
C8_AppliedIffClauseSent ==
    \A c \in CallIds :
        (EnhancedStarted(calls[c]) /\ calls[c].pc = "done") =>
            (calls[c].result.metadata.regexFilterApplied
                <=> RegexClauseSent(calls[c]))

\* the upstream query answered the invocation with no row
AnsweredEmpty(call) ==
    /\ call.pc = "done"
    /\ call.received.rows = None \/ call.received.rows = Some(<<>>)

DetectionRequested(call) ==
    \/ call.tool = "detect_quick_wins"
    \/ /\ call.tool = "enhanced_search_analytics"
       /\ call.args.enableQuickWins = Some(TRUE)

\* C10 as stated: when detection is requested and the upstream query returns
\* no row, the invocation returns a result that carries a present opportunity
\* list of length zero, from enhancedSearchAnalytics with enableQuickWins as
\* from the detect_quick_wins tool.
C10_EmptyListPresent ==
    \A c \in CallIds :
        (calls[c].pc = "done" /\ DetectionRequested(calls[c]) /\ AnsweredEmpty(calls[c])) =>
            /\ calls[c].error = ""
            /\ IF calls[c].tool = "detect_quick_wins"
               THEN calls[c].result.quickWins = <<>>
               ELSE calls[c].result.quickWins = Some(<<>>)

\* C10 (amended): when detection is requested and the upstream query returns
\* no row, the invocation returns without error; the report of the
\* detect_quick_wins tool carries a present opportunity list of length zero
\* and zero totals, while the result of enhancedSearchAnalytics with
\* enableQuickWins carries no opportunity list at all, with
\* metadata.quickWinsEnabled true and metadata.totalRows zero.
C10_EmptyListOrAbsent ==
    \A c \in CallIds :
        (calls[c].pc = "done" /\ DetectionRequested(calls[c]) /\ AnsweredEmpty(calls[c])) =>
            /\ calls[c].error = ""
            /\ IF calls[c].tool = "detect_quick_wins"
               THEN /\ calls[c].result.quickWins = <<>>
                    /\ calls[c].result.summary.totalOpportunities = 0
                    /\ calls[c].result.summary.totalAdditionalClicks = 0
                    /\ calls[c].result.summary.totalEstimatedValue = 0
                    /\ calls[c].result.analysisComplete
               ELSE /\ calls[c].result.quickWins = None
                    /\ calls[c].result.rows = <<>>
                    /\ calls[c].result.metadata.quickWinsEnabled
                    /\ calls[c].result.metadata.totalRows = 0

\* both tools were answered with no row: the enhanced tool with an empty
\* list of rows, the detect_quick_wins tool with no rows field
C10_Witness ==
    \E c, d \in CallIds :
        /\ calls[c].tool = "enhanced_search_analytics"
        /\ DetectionRequested(calls[c])
        /\ AnsweredEmpty(calls[c])
        /\ calls[c].received.rows = Some(<<>>)
        /\ calls[d].tool = "detect_quick_wins"
        /\ AnsweredEmpty(calls[d])
        /\ calls[d].received.rows = None

-----------------------------------------------------------------------------
(* Claims about withPermissionFallback and the upstream calls of a tool
   invocation *)

\* the upstream errors whose message contains "permission" or "403", in any
\* letter case
PermissionRelated ==
    {"User does not have sufficient PERMISSION for site",
     "Request failed with status code 403"}

\* the fallback query of an invocation: the query it sent first, against the
\* normalized site identifier
FallbackQueryOf(call) ==
    [siteUrl |-> "sc-domain:example.com",
     requestBody |-> call.sent[1].requestBody]

\* C11: when the primary query fails with an error whose message contains
\* "permission" or "403" (in any letter case), the fallback query against the
\* normalized site identifier is sent, once, after that failure, and whatever
\* the fallback's outcome nothing more is sent; when the primary query
\* succeeds no fallback query is sent.
C11_FallbackOnce ==
    [][\A c \in CallIds :
          /\ (calls[c].pc = "primary" /\ calls'[c].pc = "fallback") =>
                /\ calls'[c].err \in PermissionRelated
                /\ Len(calls[c].sent) = 1
                /\ calls'[c].sent = Append(calls[c].sent, FallbackQueryOf(calls[c]))
          /\ (calls[c].pc = "primary" /\ calls'[c].pc = "failed") =>
                /\ calls'[c].sent = calls[c].sent
                /\ \A m \in PermissionRelated :
                      calls'[c].error # "[GSC] searchAnalytics failed: " \o m
          /\ (calls[c].pc = "primary" /\ calls'[c].pc = "done") =>
                /\ calls'[c].sent = calls[c].sent
                /\ Len(calls'[c].sent) = 1
          /\ calls[c].pc = "primary" =>
                calls'[c].pc \in {"primary", "fallback", "done", "failed"}
          /\ calls[c].pc = "fallback" =>
                /\ calls'[c].pc \in {"fallback", "done", "failed"}
                /\ calls'[c].sent = calls[c].sent
                /\ Len(calls[c].sent) = 2
          /\ calls[c].pc \in {"done", "failed"} => calls'[c] = calls[c]
      ]_vars

\* an invocation returned the data of its fallback query, the second and
\* last query it sent
C11_Witness ==
    \E c \in CallIds :
        /\ calls[c].pc = "done"
        /\ Len(calls[c].sent) = 2
        /\ calls[c].sent[1].siteUrl = "https://example.com/"
        /\ calls[c].sent[2].siteUrl = "sc-domain:example.com"
        /\ calls[c].sent[2].requestBody = calls[c].sent[1].requestBody

\* C12: every upstream error that is not classified as an authorization error
\* is re-raised as "[GSC] <context> failed: <message>" and is not retried: an
\* invocation that failed on an upstream error either failed on an
\* authorization error or carries the wrapped message and sent one query.
C12_OthersWrappedNotRetried ==
    \A c \in CallIds :
        (calls[c].pc = "failed" /\ Len(calls[c].sent) > 0) =>
            \/ calls[c].error \in PermissionRelated
            \/ /\ calls[c].error \in
                    {"[GSC] searchAnalytics failed: " \o m :
                        m \in UpstreamErrors \ PermissionRelated}
               /\ Len(calls[c].sent) = 1

\* C13 as stated: a tool invocation sends at most one upstream query, on
\* every path.
C13_AtMostOneQuery ==
    \A c \in CallIds : Len(calls[c].sent) <= 1

\* C13 (amended): a tool invocation sends at most two upstream queries, on
\* every path: none before the client is obtained, one primary query, and a
\* second one, the fallback query against the normalized site identifier,
\* only after the primary query failed with an authorization error.
C13_AtMostTwoQueries ==
    \A c \in CallIds :
        /\ Len(calls[c].sent) <= 2
        /\ calls[c].pc \in {"idle", "getClient", "cached"} => calls[c].sent = <<>>
        /\ calls[c].pc = "primary" => Len(calls[c].sent) = 1
        /\ calls[c].pc = "fallback" =>
              Len(calls[c].sent) = 2 /\ calls[c].err \in PermissionRelated
        /\ Len(calls[c].sent) = 2 => calls[c].sent[2] = FallbackQueryOf(calls[c])

\* an invocation failed after its two queries
C13_Witness ==
    \E c \in CallIds :
        /\ calls[c].pc = "failed"
        /\ Len(calls[c].sent) = 2
        /\ calls[c].error = "Quota exceeded"

\* C14: over any interleaving of tool invocations this.auth.getClient() is
\* called at most once, and once cachedAuthClient is set it is not replaced.
C14_AcquiredOnce ==
    [][/\ getClientCalls' <= 1
       /\ cachedAuthClient # NoClient => cachedAuthClient' = cachedAuthClient
      ]_<<cachedAuthClient, getClientCalls>>

-----------------------------------------------------------------------------
(* Claims about the validation of the arguments *)

\* the issues listed as "<field path>: <message>", separated by "; "
RECURSIVE Listing(_)
Listing(issues) ==
    IF Len(issues) = 0 THEN ""
    ELSE IF Len(issues) = 1 THEN issues[1].path \o ": " \o issues[1].message
    ELSE issues[1].path \o ": " \o issues[1].message \o "; " \o Listing(Tail(issues))

\* the invocation was received with arguments its schema rejects
Rejected(call) == call.pc # "idle" /\ ~ParseFor(call.tool, call.args).ok

\* C15: a tool call whose arguments fail the validation of its schema fails
\* with "Invalid arguments: " followed by every issue as "<field path>:
\* <message>"; it sends no upstream query, waits for no client (getClient() is
\* not called for it) and returns no result, so no detection runs for it.
C15_InvalidArgumentsRejected ==
    \A c \in CallIds :
        Rejected(calls[c]) =>
            /\ calls[c].pc = "failed"
            /\ calls[c].error =
                  "Invalid arguments: " \o Listing(ParseFor(calls[c].tool, calls[c].args).issues)
            /\ calls[c].sent = <<>>
            /\ calls[c].awaitedClient = NoClient
            /\ getClientCalls = cachedAuthClient
            /\ calls[c].result = Unused

\* an enhanced call with a row limit and a threshold out of range was
\* rejected with both issues listed
C15_Witness ==
    \E c \in CallIds :
        /\ Rejected(calls[c])
        /\ calls[c].tool = "enhanced_search_analytics"
        /\ calls[c].args.rowLimit = 25001
        /\ calls[c].error =
              "Invalid arguments: rowLimit: too_big; quickWinsThresholds.positionRangeMax: too_big"

-----------------------------------------------------------------------------
(* Claims about repeated detections, checked under SpecRepeat *)

-----------------------------------------------------------------------------
(* Claims about the threshold profile, checked under SpecDetect *)

\* the documented defaults of the seven thresholds
DocumentedDefaults ==
    [minImpressions |-> 50, maxCtr |-> Pct(2, 0),
     positionRangeMin |-> Pos(4, 0), positionRangeMax |-> Pos(10, 0),
     targetCtr |-> Pct(5, 0), estimatedClickValue |-> Usd(1, 0),
     conversionRate |-> 3]

\* the full profile of a partial one: each omitted field at its documented
\* default
FullProfile(t) ==
    [f \in DOMAIN t |-> IF t[f] = Undefined THEN DocumentedDefaults[f] ELSE t[f]]

\* C17: under every threshold profile with positionRangeMin >
\* positionRangeMax, detectQuickWins on a non-empty row set returns the empty
\* list (and returns: no error is raised).
C17_InvertedRangeEmpty ==
    (/\ dpc = "done"
     /\ Len(rows) > 0
     /\ FullProfile(thresholds).positionRangeMin > FullProfile(thresholds).positionRangeMax)
        => quickWins = <<>>

\* the range 10..4 was applied to rows at positions 4 and 10, the range
\* 6.20..6.19 to a row at position 6.20
C17_Witness ==
    /\ dpc = "done"
    /\ quickWins = <<>>
    /\ \/ /\ thresholds.positionRangeMin = Pos(10, 0)
          /\ thresholds.positionRangeMax = Pos(4, 0)
          /\ \E i, j \in DOMAIN rows :
                rows[i].position = Pos(4, 0) /\ rows[j].position = Pos(10, 0)
       \/ /\ thresholds.positionRangeMin = Pos(6, 20)
          /\ thresholds.positionRangeMax = Pos(6, 19)
          /\ \E i \in DOMAIN rows : rows[i].position = Pos(6, 20)

\* C18: detectQuickWins with any subset of the thresholds given returns what
\* it returns with the full profile in which every omitted threshold has its
\* documented default (50, 2.0, 4, 10, 5.0, 1.0, 0.03); the schema of the
\* thresholds, which the detect_quick_wins tool merges into its own, fills in
\* the same values.
C18_OmittedMeansDefault ==
    /\ dpc = "done" => quickWins = detectQuickWins(rows, FullProfile(thresholds))
    /\ thresholds = NoThresholds =>
          /\ ThresholdValue(thresholds) = DocumentedDefaults
          /\ \A f \in DOMAIN DocumentedDefaults :
                QuickWinsDetectionSchemaParse(QuickWinsArgs).value[f] = DocumentedDefaults[f]

\* a profile with two thresholds given and five omitted found an opportunity
C18_Witness ==
    /\ dpc = "done"
    /\ thresholds.targetCtr = Pct(3, 300)
    /\ thresholds.maxCtr = Pct(1, 200)
    /\ thresholds.minImpressions = Undefined
    /\ thresholds.positionRangeMax = Undefined
    /\ Len(quickWins) >= 2

-----------------------------------------------------------------------------
(* Claims about the report of the detect_quick_wins tool *)

RECURSIVE Total(_, _)
Total(qws, field) ==
    IF qws = <<>> THEN 0 ELSE qws[1][field] + Total(Tail(qws), field)

\* the thresholds of a detect_quick_wins call, omitted ones at their default
ThresholdsOf(a) ==
    [f \in DOMAIN DocumentedDefaults |->
        IF a[f] = Undefined THEN DocumentedDefaults[f] ELSE a[f]]

\* the rows the upstream query returned
Fetched(call) ==
    IF call.received.rows = None THEN <<>> ELSE ValueOf(call.received.rows)

-----------------------------------------------------------------------------
(* Claims about the recommendation, checked under SpecRecommend *)

\* the fragments joined by ". "
RECURSIVE Joined(_)
Joined(fragments) ==
    IF Len(fragments) = 1 THEN fragments[1]
    ELSE fragments[1] \o ". " \o Joined(Tail(fragments))

\* the fragment if it applies
Advice(applies, fragment) == IF applies THEN <<fragment>> ELSE <<>>

\* the advice fragments the claim gives for a position (1/100), a percentage
\* ctr (1/1000 %, or NaN) and impressions: position, CTR, volume advice
ClaimedFragments(position, ctr, impressions) ==
    Advice(Pos(4, 0) <= position /\ position <= Pos(6, 0),
           "Improve content depth and relevance to reach top 3")
    \o Advice(Pos(6, 0) < position /\ position <= Pos(10, 0),
              "Focus on on-page SEO and internal linking")
    \o Advice(ctr # NaN /\ ctr < Pct(1, 0),
              "Optimize title tag and meta description for higher CTR")
    \o Advice(impressions >= 1000,
              "High-volume keyword - prioritize optimization")

\* C20: the recommendation is the applicable advice fragments joined by ". "
\* in the order position, CTR, volume advice: the top 3 advice iff 4 <=
\* position <= 6, the on-page SEO advice iff 6 < position <= 10 (never both),
\* the title/meta advice iff the percentage CTR < 1, the high-volume advice
\* iff impressions >= 1000; the generic text iff no fragment applies.
C20_RecommendationFragments ==
    dpc = "done" =>
        LET fragments ==
                ClaimedFragments(recArgs.position, recArgs.ctr, recArgs.impressions)
        IN  /\ recommendation =
                  IF fragments = <<>>
                  THEN "Review content for optimization opportunities"
                  ELSE Joined(fragments)
            /\ Len(fragments) <= 3

\* at position 6 with a CTR of 0.999 % and 1000 impressions all three kinds
\* of advice are given
C20_Witness ==
    /\ dpc = "done"
    /\ recArgs = [position |-> Pos(6, 0), ctr |-> Pct(0, 999), impressions |-> 1000]
    /\ recommendation =
          "Improve content depth and relevance to reach top 3. Optimize title tag and meta description for higher CTR. High-volume keyword - prioritize optimization"

-----------------------------------------------------------------------------
(* Claims about interleaved invocations, checked under Spec *)

\* the request body an invocation sends when it runs alone
RequestAlone(tool, a) ==
    LET p == ParseFor(tool, a).value
    IN  IF tool = "search_analytics" THEN RequestFor(tool, p)
        ELSE EnhancedRequestBody(RequestFor(tool, p), OptionsFor(tool, p))

\* the response an invocation returns when it runs alone and the upstream
\* query answers with data
ResponseAlone(tool, a, data) ==
    LET p == ParseFor(tool, a).value
        enhanced == EnhancedResponse(RequestAlone(tool, a), OptionsFor(tool, p), data)
    IN  CASE tool = "search_analytics" -> data
          [] tool = "enhanced_search_analytics" -> enhanced
          [] tool = "detect_quick_wins" -> QuickWinsReport(p, enhanced)

-----------------------------------------------------------------------------
(* Claims about the sample output of the README, checked under SpecDetect *)

\* the row of the sample: impressions 1250, clicks 15, CTR 1.2 %, position 6.2
SampleRow(r) ==
    /\ r.impressions = 1250
    /\ r.clicks = 15
    /\ r.ctr = 1200
    /\ r.position = Pos(6, 20)

\* the opportunities reported for the sample row
SampleOpportunities ==
    { j \in DOMAIN quickWins :
        \E i \in DOMAIN rows : SampleRow(rows[i]) /\ FromRow(quickWins[j], rows[i]) }

SampleDetected ==
    /\ dpc = "done"
    /\ thresholds = NoThresholds
    /\ \E i \in DOMAIN rows : SampleRow(rows[i])

-----------------------------------------------------------------------------
(* Claims about a failing fallback query, checked under SpecSingle *)

\* what the fallback query throws in the model: a permission error again, or
\* another error
RaisedByFallback ==
    {"User does not have sufficient PERMISSION for site", "Quota exceeded"}

\* C23: when the primary query fails with a permission error and the
\* fallback query fails too, the invocation fails with the fallback's error
\* as it was raised, without the "[GSC] <context> failed" wrapper, and the
\* error is not classified again: also after a second permission error the
\* invocation has sent its two queries and no third one.
C23_FallbackErrorAsRaised ==
    [][\A c \in CallIds :
          (calls[c].pc = "fallback" /\ calls'[c].pc # "fallback") =>
              \/ calls'[c].pc = "done"
              \/ /\ calls'[c].pc = "failed"
                 /\ calls'[c].error \in RaisedByFallback
                 /\ calls'[c].sent = calls[c].sent
                 /\ Len(calls'[c].sent) = 2
      ]_<<cachedAuthClient, getClientCalls,
          [c \in CallIds |-> <<calls[c].pc, calls[c].sent, calls[c].error>>]>>

\* after a 403 and its fallback query, a second permission error ended the
\* invocation
C23_Witness ==
    \E c \in CallIds :
        /\ calls[c].pc = "failed"
        /\ Len(calls[c].sent) = 2
        /\ calls[c].error = "User does not have sufficient PERMISSION for site"

====
